---- MODULE Spec2Model ----
(***************************************************************************)
(* Command handlers of the Telegram multi-utility bot (src/main.py).       *)
(*                                                                         *)
(* Every handler is an asyncio coroutine run by the dispatcher on one      *)
(* event loop.  A handler is modelled from one suspension point to the     *)
(* next: its start up to the first `requests` call or `await`, the return  *)
(* of the `requests` call up to the next `await message.reply`, and the    *)
(* outcome of that await.  `requests.get/post` is a synchronous call: the  *)
(* coroutine keeps the event loop while it waits for the remote service.   *)
(*                                                                         *)
(* Python values are tagged records:                                       *)
(*   [none |-> TRUE]  None / JSON null      [s |-> "txt"]  str             *)
(*   [n |-> 7]        number                [o |-> f]      dict (f a       *)
(*   [a |-> <<..>>]   list                                  function)      *)
(*   [bad |-> TRUE]   a body that is not JSON                              *)
(*   [exc |-> "E"]    the exception E raised by the evaluation             *)
(***************************************************************************)
EXTENDS Integers, Sequences, FiniteSets, TLC

\* ---------------------------------------------------------------- bounds
\* number of invocations the dispatch loop receives in one behaviour
MaxTasks == 2

\* text[:3000] in cmd_ask
ReplyLimit == 3000

\* timeout=20 of the requests.post call of cmd_ask; 0 stands for "no timeout"
AskTimeout == 20

Tasks == 1..MaxTasks

\* ------------------------------------------------- Python values, strings
None == [none |-> TRUE]

Str(x) == [s |-> x]

Num(x) == [n |-> x]

Obj(f) == [o |-> f]

Arr(q) == [a |-> q]

Bad == [bad |-> TRUE]

Exc(e) == [exc |-> e]

IsNone(v) == "none" \in DOMAIN v

IsStr(v) == "s" \in DOMAIN v

IsNum(v) == "n" \in DOMAIN v

IsObj(v) == "o" \in DOMAIN v

IsArr(v) == "a" \in DOMAIN v

IsBad(v) == "bad" \in DOMAIN v

IsExc(v) == "exc" \in DOMAIN v

Min(x, y) == IF x <= y THEN x ELSE y

Char(t, i) == SubSeq(t, i, i)

IsSpace(c) == c \in {" ", "\t", "\n", "\r"}

\* str.lstrip(), str.rstrip(), str.strip()
RECURSIVE LStrip(_)
LStrip(t) ==
    IF Len(t) > 0 /\ IsSpace(Char(t, 1)) THEN LStrip(SubSeq(t, 2, Len(t))) ELSE t

RECURSIVE RStrip(_)
RStrip(t) ==
    IF Len(t) > 0 /\ IsSpace(Char(t, Len(t))) THEN RStrip(SubSeq(t, 1, Len(t) - 1)) ELSE t

Strip(t) == RStrip(LStrip(t))

Uppers == "ABCDEFGHIJKLMNOPQRSTUVWXYZ"

Lowers == "abcdefghijklmnopqrstuvwxyz"

LowerChar(c) ==
    IF \E k \in 1..Len(Uppers) : Char(Uppers, k) = c
    THEN Char(Lowers, CHOOSE k \in 1..Len(Uppers) : Char(Uppers, k) = c)
    ELSE c

UpperChar(c) ==
    IF \E k \in 1..Len(Lowers) : Char(Lowers, k) = c
    THEN Char(Uppers, CHOOSE k \in 1..Len(Lowers) : Char(Lowers, k) = c)
    ELSE c

\* str.lower()
RECURSIVE Lower(_)
Lower(t) ==
    IF Len(t) = 0 THEN t ELSE LowerChar(Char(t, 1)) \o Lower(SubSeq(t, 2, Len(t)))

\* str.capitalize(): first character upper-cased, the rest lower-cased
Capitalize(t) ==
    IF Len(t) = 0 THEN t ELSE UpperChar(Char(t, 1)) \o Lower(SubSeq(t, 2, Len(t)))

\* t[:k] for k >= 0
Slice(t, k) == SubSeq(t, 1, Min(k, Len(t)))

\* bool(v) for None and str
Truthy(v) == IF IsNone(v) THEN FALSE ELSE IF IsStr(v) THEN Len(v.s) > 0 ELSE TRUE

\* repr(v) of a decoded JSON value (a dict of at most one key, a list of at
\* most one item: the bodies enumerated below have no more)
RECURSIVE Repr(_)
Repr(v) ==
    IF IsNone(v) THEN "None"
    ELSE IF IsStr(v) THEN "'" \o v.s \o "'"
    ELSE IF IsNum(v) THEN ToString(v.n)
    ELSE IF IsArr(v) THEN
        (IF Len(v.a) = 0 THEN "[]" ELSE "[" \o Repr(v.a[1]) \o "]")
    ELSE IF DOMAIN v.o = {} THEN "{}"
    ELSE LET k == CHOOSE x \in DOMAIN v.o : TRUE
         IN  "{'" \o k \o "': " \o Repr(v.o[k]) \o "}"

\* str(v), as an f-string field or str() formats it
PyStr(v) == IF IsStr(v) THEN v.s ELSE Repr(v)

\* d.get(key, default): AttributeError unless d is a dict
Get(d, key, default) ==
    IF IsExc(d) THEN d
    ELSE IF ~IsObj(d) THEN Exc("AttributeError")
    ELSE IF key \in DOMAIN d.o THEN d.o[key] ELSE default

\* d[key] with a string key
Item(d, key) ==
    IF IsExc(d) THEN d
    ELSE IF IsObj(d) THEN (IF key \in DOMAIN d.o THEN d.o[key] ELSE Exc("KeyError"))
    ELSE Exc("TypeError")

\* d[0]
First(d) ==
    IF IsExc(d) THEN d
    ELSE IF IsArr(d) THEN (IF Len(d.a) > 0 THEN d.a[1] ELSE Exc("IndexError"))
    ELSE IF IsObj(d) THEN Exc("KeyError")
    ELSE IF IsStr(d) THEN (IF Len(d.s) > 0 THEN Str(Char(d.s, 1)) ELSE Exc("IndexError"))
    ELSE Exc("TypeError")

\* ------------------------------------------------------------ environment
\* message.get_args(): the text after the command, "" when there is none
\* (the contract the handlers are written against; it does not raise)
ArgValues == {Str(""), Str("ETH ")}

FirstNames == {"Ann"}

\* datetime.datetime.now()
Clock == {[Y |-> 2024, M |-> 2, D |-> 29, h |-> 9, mi |-> 5, sec |-> 0]}

Messages == [args : ArgValues, first_name : FirstNames, now : Clock]

VARIABLES
    OPENWEATHER_KEY,   \* commands/utilities.py, module global
    HUGGINGFACE_KEY,   \* commands/ai.py, module global
    loop,              \* the task the event loop is running inside a blocking call, 0 if none
    pc,                \* where each invocation's handler is
    cmd,               \* the command of each invocation
    msg,               \* the message of each invocation
    call,              \* the outbound HTTP call of the handler
    calls,             \* how many outbound HTTP calls the handler made
    resp,              \* what the outbound call returned or raised
    out,               \* the reply the handler is sending
    sends,             \* how many times the handler called message.reply / reply_photo
    delivered,         \* how many replies reached the chat
    escaped            \* the exception that left the handler, "" if none

vars == <<OPENWEATHER_KEY, HUGGINGFACE_KEY, loop, pc, cmd, msg, call, calls, resp, out,
          sends, delivered, escaped>>

\* --------------------------------------------------- what a handler step yields
\* await message.reply(text) at source line `line`; inTry: the await is inside
\* the handler's try block
Reply(line, text, inTry) ==
    [pc |-> "reply", line |-> line, text |-> text, photo |-> "", inTry |-> inTry]

\* await message.reply_photo(photo=..., caption=...)
ReplyPhoto(line, photo, caption, inTry) ==
    [pc |-> "reply", line |-> line, text |-> caption, photo |-> photo, inTry |-> inTry]

\* requests.get(url) / requests.post(url, timeout=...)
Request(url, timeout) == [pc |-> "calling", url |-> url, timeout |-> timeout]

\* an exception that no except clause of the handler catches
Raise(e) == [pc |-> "raised", exc |-> e]

\* r.json()
Json(r) == IF IsExc(r) THEN r ELSE IF IsBad(r.body) THEN Exc("JSONDecodeError") ELSE r.body

\* ------------------------------------------------------------- main.py
cmd_start_begin(m) ==
    Reply(64, "Hey " \o m.first_name \o "! I'm alive. Type /help to see commands.", FALSE)

help_text ==
    "/start - Start bot\n"
    \o "/help - This help\n"
    \o "/ask <text> - Ask AI (local HF or fallback)\n"
    \o "/quote - Random inspirational quote\n"
    \o "/joke - Random joke\n"
    \o "/weather <city> - Weather info (OpenWeather)\n"
    \o "/crypto <id> - Crypto price (CoinGecko)\n"
    \o "/todo, /notes - Personal todo & notes (local json)\n"

cmd_help_begin(m) == Reply(78, help_text, FALSE)

\* ------------------------------------------------------- commands/fun.py
cmd_joke_begin(m) == Request("https://v2.jokeapi.dev/joke/Any?type=single", 0)

\* except Exception: (line 114)
cmd_joke_except(m) == Reply(115, "Joke API error", FALSE)

cmd_joke_resume(m, r) ==
    LET data == Json(r)
        text == Get(data, "joke", Str("Couldn't fetch joke"))
    IN  IF IsExc(text) THEN cmd_joke_except(m)
        ELSE Reply(113, text.s, TRUE)

cmd_quote_begin(m) == Request("https://zenquotes.io/api/random", 0)

\* except Exception: (line 123)
cmd_quote_except(m) == Reply(124, "Quote API error", FALSE)

\* the em dash of the source is written "--"
cmd_quote_resume(m, r) ==
    LET data == First(Json(r))
        q == Get(data, "q", None)
        a == Get(data, "a", None)
    IN  IF IsExc(q) \/ IsExc(a) THEN cmd_quote_except(m)
        ELSE Reply(122, "\"" \o PyStr(q) \o "\" -- " \o PyStr(a), TRUE)

cmd_meme_begin(m) == Request("https://meme-api.herokuapp.com/gimme", 0)

\* except Exception: (line 132)
cmd_meme_except(m) == Reply(133, "No meme for now", FALSE)

cmd_meme_resume(m, r) ==
    LET data == Json(r)
        url == Item(data, "url")
        title == Get(data, "title", Str(""))
    IN  IF IsExc(url) \/ IsExc(title) THEN cmd_meme_except(m)
        ELSE ReplyPhoto(131, url.s, title.s, TRUE)

\* ------------------------------------------------- commands/utilities.py
\* faulty variant: the city is stripped without the test of args, and only None is refused
cmd_weather_begin_unvalidated(m) ==
    LET city == Str(Strip(m.args.s))
    IN  IF IsNone(city) THEN Reply(153, "Usage: /weather city_name", FALSE)
        ELSE Request("https://api.openweathermap.org/data/2.5/weather?q=" \o city.s
                     \o "&appid=" \o PyStr(OPENWEATHER_KEY) \o "&units=metric", 0)

\* faulty variant: the fields are extracted after the try block
cmd_weather_resume_unguarded(m, r) ==
    LET data == Json(r)
        desc == Item(First(Item(data, "weather")), "description")
        temp == Item(Item(data, "main"), "temp")
    IN  IF IsExc(data) THEN Reply(166, "Weather API error", FALSE)
        ELSE IF r.status # 200 THEN Reply(159, "Weather not found or API key missing", TRUE)
        ELSE IF IsExc(desc) THEN Raise(desc.exc)
        ELSE IF IsExc(temp) THEN Raise(temp.exc)
        ELSE Reply(164, "Weather in " \o Strip(m.args.s) \o ": " \o PyStr(desc) \o ", "
                        \o PyStr(temp) \o "°C", TRUE)

\* city = args.strip() if args else None
weather_city(args) == IF Truthy(args) THEN Str(Strip(args.s)) ELSE None

cmd_weather_begin(m) ==
    LET city == weather_city(m.args)
    IN  IF ~Truthy(city) THEN Reply(153, "Usage: /weather city_name", FALSE)
        ELSE Request("https://api.openweathermap.org/data/2.5/weather?q=" \o city.s
                     \o "&appid=" \o PyStr(OPENWEATHER_KEY) \o "&units=metric", 0)

\* except Exception: (line 165)
cmd_weather_except(m) == Reply(166, "Weather API error", FALSE)

cmd_weather_resume(m, r) ==
    LET city == weather_city(m.args)
        data == Json(r)
        desc == Item(First(Item(data, "weather")), "description")
        temp == Item(Item(data, "main"), "temp")
    IN  IF IsExc(r) THEN cmd_weather_except(m)
        ELSE IF r.status # 200 THEN Reply(159, "Weather not found or API key missing", TRUE)
        ELSE IF IsExc(desc) \/ IsExc(temp) THEN cmd_weather_except(m)
        ELSE Reply(164, "Weather in " \o city.s \o ": " \o PyStr(desc) \o ", "
                        \o PyStr(temp) \o "°C", TRUE)

\* faulty variant: the coin id keeps the case the user typed
crypto_coin_keep_case(args) == IF Truthy(args) THEN Strip(args.s) ELSE "bitcoin"

\* coin = args.strip().lower() if args else 'bitcoin'
crypto_coin(args) == IF Truthy(args) THEN Lower(Strip(args.s)) ELSE "bitcoin"

cmd_crypto_begin(m) ==
    Request("https://api.coingecko.com/api/v3/simple/price?ids=" \o crypto_coin(m.args)
            \o "&vs_currencies=usd", 0)

\* except Exception: (line 180)
cmd_crypto_except(m) == Reply(181, "CoinGecko API error", FALSE)

cmd_crypto_resume(m, r) ==
    LET coin == crypto_coin(m.args)
        data == Json(r)
        price == Get(Get(data, coin, Obj(<<>>)), "usd", None)
    IN  IF IsExc(price) THEN cmd_crypto_except(m)
        ELSE IF IsNone(price) THEN Reply(177, "Coin not found", TRUE)
        ELSE Reply(179, Capitalize(coin) \o " price: $" \o PyStr(price), TRUE)

Pad(k, w) == IF w = 4 THEN (IF k < 1000 THEN "0" ELSE "") \o (IF k < 100 THEN "0" ELSE "")
                           \o (IF k < 10 THEN "0" ELSE "") \o ToString(k)
             ELSE (IF k < 10 THEN "0" ELSE "") \o ToString(k)

\* now.strftime('%Y-%m-%d %H:%M:%S')
strftime(now) ==
    Pad(now.Y, 4) \o "-" \o Pad(now.M, 2) \o "-" \o Pad(now.D, 2) \o " "
    \o Pad(now.h, 2) \o ":" \o Pad(now.mi, 2) \o ":" \o Pad(now.sec, 2)

cmd_time_begin(m) == Reply(187, "Server time: " \o strftime(m.now), FALSE)

\* ------------------------------------------------------- commands/ai.py
\* faulty variant: the slice keeps one character more
truncate_one_more(text) == Slice(text, ReplyLimit + 1)

\* text[:3000]
truncate(text) == Slice(text, ReplyLimit)

\* faulty variant: the prompt is stripped before it is used
cmd_ask_begin_stripped(m) ==
    LET prompt == IF IsStr(m.args) THEN Str(Strip(m.args.s)) ELSE m.args
    IN  IF ~Truthy(prompt) THEN Reply(205, "Usage: /ask your question", FALSE)
        ELSE IF ~Truthy(HUGGINGFACE_KEY)
        THEN Reply(209, "Sorry, no external AI key configured. You asked: " \o prompt.s, FALSE)
        ELSE Request("https://api-inference.huggingface.co/models/gpt2", AskTimeout)

cmd_ask_begin(m) ==
    LET prompt == m.args
    IN  IF ~Truthy(prompt) THEN Reply(205, "Usage: /ask your question", FALSE)
        ELSE IF ~Truthy(HUGGINGFACE_KEY)
        THEN Reply(209, "Sorry, no external AI key configured. You asked: " \o prompt.s, FALSE)
        ELSE Request("https://api-inference.huggingface.co/models/gpt2", AskTimeout)

\* lines 216-219: the generated text, str(data) when the field is absent
ask_text(data) ==
    IF IsExc(data) THEN data
    ELSE IF IsArr(data) /\ Len(data.a) > 0
    THEN Get(First(data), "generated_text", Str(Repr(data)))
    ELSE Get(data, "generated_text", Str(Repr(data)))

\* except Exception: (line 221)
cmd_ask_except(m) == Reply(222, "AI API error or timeout", FALSE)

cmd_ask_resume(m, r) ==
    LET text == ask_text(Json(r))
    IN  IF IsExc(text) THEN cmd_ask_except(m)
        ELSE IF ~IsStr(text) THEN cmd_ask_except(m)
        ELSE Reply(220, truncate(text.s), TRUE)

\* ----------------------------------------------------------- dispatcher
\* @dp.message(Command(...)) in main.py
dp_commands == {"start", "help"}

\* @router.message(Command(...)) in commands/fun.py
fun_commands == {"joke", "quote", "meme"}

\* @router.message(Command(...)) in commands/utilities.py
utilities_commands == {"weather", "crypto", "time"}

\* @router.message(Command(...)) in commands/ai.py
ai_commands == {"ask"}

\* fun.register(dp); utilities.register(dp); ai.register(dp)
Registered == dp_commands \cup fun_commands \cup utilities_commands \cup ai_commands

\* commands a user may type: the registered ones and one that no router handles
Commands == Registered \cup {"todo"}

\* the handler from its start to its first requests call or await
Begin(c, m) ==
    CASE c = "start" -> cmd_start_begin(m)
      [] c = "help" -> cmd_help_begin(m)
      [] c = "joke" -> cmd_joke_begin(m)
      [] c = "quote" -> cmd_quote_begin(m)
      [] c = "meme" -> cmd_meme_begin(m)
      [] c = "weather" -> cmd_weather_begin(m)
      [] c = "crypto" -> cmd_crypto_begin(m)
      [] c = "time" -> cmd_time_begin(m)
      [] c = "ask" -> cmd_ask_begin(m)

\* the handler from the return of its requests call to its next await
Resume(c, m, r) ==
    CASE c = "joke" -> cmd_joke_resume(m, r)
      [] c = "quote" -> cmd_quote_resume(m, r)
      [] c = "meme" -> cmd_meme_resume(m, r)
      [] c = "weather" -> cmd_weather_resume(m, r)
      [] c = "crypto" -> cmd_crypto_resume(m, r)
      [] c = "ask" -> cmd_ask_resume(m, r)

\* the handler's except branch, entered when an await inside try raises
Except(c, m) ==
    CASE c = "joke" -> cmd_joke_except(m)
      [] c = "quote" -> cmd_quote_except(m)
      [] c = "meme" -> cmd_meme_except(m)
      [] c = "weather" -> cmd_weather_except(m)
      [] c = "crypto" -> cmd_crypto_except(m)
      [] c = "ask" -> cmd_ask_except(m)

\* ------------------------------------------------------ remote services
RECURSIVE Rep(_, _)
Rep(t, k) ==
    IF k = 0 THEN ""
    ELSE IF k % 2 = 0 THEN LET h == Rep(t, k \div 2) IN h \o h
    ELSE t \o Rep(t, k - 1)

\* a text of k characters
LongText(k) == SubSeq(Rep("0123456789", (k \div 10) + 1), 1, k)

\* lengths of the generated texts the text-generation service returns
TextLengths == {ReplyLimit - 1, ReplyLimit, ReplyLimit + 1, ReplyLimit + 1000}

Response(status, body) == [status |-> status, body |-> body]

\* what requests.get/post returns when the service answers: per command, one
\* answer for every path of the handler
Responses(c, m) ==
    CASE c = "joke" -> {Response(200, Obj([joke |-> Str("Knock knock")])),
                        Response(200, Obj([error |-> Str("true")])),
                        Response(200, Arr(<<>>)),
                        Response(500, Bad)}
      [] c = "quote" -> {Response(200, Arr(<<Obj([q |-> Str("Carpe diem"), a |-> Str("Horace")])>>)),
                         Response(200, Arr(<<Obj([q |-> Str("Carpe diem")])>>)),
                         Response(200, Arr(<<>>)),
                         Response(500, Bad)}
      [] c = "meme" -> {Response(200, Obj([url |-> Str("https://i.redd.it/x.png"),
                                           title |-> Str("lol")])),
                        Response(200, Obj([url |-> Str("https://i.redd.it/x.png")])),
                        Response(200, Obj([title |-> Str("lol")])),
                        Response(500, Bad)}
      [] c = "weather" -> {Response(200, Obj([weather |-> Arr(<<Obj([description |-> Str("clear sky")])>>),
                                              main |-> Obj([temp |-> Num(18)])])),
                           Response(200, Obj([weather |-> Arr(<<>>),
                                              main |-> Obj([temp |-> Num(18)])])),
                           Response(404, Obj([cod |-> Str("404")])),
                           Response(200, Bad)}
      [] c = "crypto" -> {Response(200, Obj(crypto_coin(m.args) :> Obj([usd |-> Num(64250)]))),
                          Response(200, Obj(crypto_coin(m.args) :> Obj([usd |-> None]))),
                          Response(200, Obj(<<>>)),
                          Response(200, Arr(<<>>)),
                          Response(500, Bad)}
      [] c = "ask" -> {Response(200, Arr(<<Obj([generated_text |-> Str(LongText(k))])>>)) :
                           k \in TextLengths}
                      \cup {Response(200, Obj([generated_text |-> Str("0123456789")])),
                            Response(200, Arr(<<Obj([generated_text |-> Num(7)])>>)),
                            Response(503, Obj([error |-> Str("Model gpt2 is currently loading")])),
                            Response(200, Arr(<<>>)),
                            Response(500, Bad)}
      [] OTHER -> {}

\* --------------------------------------------------------------- state
\* the credentials the process may start with
Environments ==
    {[ow |-> None, hf |-> None], [ow |-> Str("k3y"), hf |-> Str("")],
     [ow |-> Str("k3y"), hf |-> Str("k3y")]}

\* the messages that invoke command c: only weather, crypto and ask read get_args()
MessagesOf(c) ==
    IF c \in {"weather", "crypto", "ask"} THEN Messages
    ELSE {m \in Messages : m.args = Str("")}

NoCall == [url |-> "", timeout |-> 0, silent |-> FALSE]

NoReply == [pc |-> "reply", line |-> 0, text |-> "", photo |-> "", inTry |-> FALSE]

NoMessage == [args |-> None, first_name |-> "", now |-> CHOOSE t \in Clock : TRUE]

Init ==
    /\ \E e \in Environments : OPENWEATHER_KEY = e.ow /\ HUGGINGFACE_KEY = e.hf
    /\ loop = 0
    /\ pc = [i \in Tasks |-> "none"]
    /\ cmd = [i \in Tasks |-> ""]
    /\ msg = [i \in Tasks |-> NoMessage]
    /\ call = [i \in Tasks |-> NoCall]
    /\ calls = [i \in Tasks |-> 0]
    /\ resp = [i \in Tasks |-> None]
    /\ out = [i \in Tasks |-> NoReply]
    /\ sends = [i \in Tasks |-> 0]
    /\ delivered = [i \in Tasks |-> 0]
    /\ escaped = [i \in Tasks |-> ""]

\* the handler of task i returned or raised: its frame (message, response,
\* pending reply) is released
Release(i) ==
    /\ cmd' = [cmd EXCEPT ![i] = ""]
    /\ msg' = [msg EXCEPT ![i] = NoMessage]
    /\ call' = [call EXCEPT ![i] = NoCall]
    /\ resp' = [resp EXCEPT ![i] = None]
    /\ out' = [out EXCEPT ![i] = NoReply]

\* the handler of task i, running command c on message m, reached `step`: a
\* requests call, an await of a reply, or an exception that leaves the handler;
\* r is the result of its HTTP call while the try block still uses it, else None
Goto(i, c, m, r, step) ==
    /\ pc' = [pc EXCEPT ![i] = step.pc]
    /\ IF step.pc = "calling"
       THEN /\ \E silent \in BOOLEAN :
                 call' = [call EXCEPT ![i] = [url |-> step.url, timeout |-> step.timeout,
                                              silent |-> silent]]
            /\ calls' = [calls EXCEPT ![i] = @ + 1]
            /\ loop' = i
            /\ cmd' = [cmd EXCEPT ![i] = c]
            /\ msg' = [msg EXCEPT ![i] = m]
            /\ resp' = [resp EXCEPT ![i] = r]
            /\ UNCHANGED <<out, sends, escaped>>
       ELSE IF step.pc = "reply"
       THEN /\ out' = [out EXCEPT ![i] = step]
            /\ sends' = [sends EXCEPT ![i] = @ + 1]
            /\ loop' = 0
            /\ cmd' = [cmd EXCEPT ![i] = c]
            /\ msg' = [msg EXCEPT ![i] = m]
            /\ resp' = [resp EXCEPT ![i] = r]
            /\ UNCHANGED <<call, calls, escaped>>
       ELSE /\ escaped' = [escaped EXCEPT ![i] = step.exc]
            /\ loop' = 0
            /\ Release(i)
            /\ UNCHANGED <<calls, sends>>

\* dp.start_polling(bot): the loop takes the next update and runs its handler
\* up to the handler's first suspension; an update no handler matches is dropped
Dispatch(i, c, m) ==
    /\ pc[i] = "none"
    /\ IF i = 1 THEN TRUE ELSE pc[i - 1] # "none"
    /\ loop = 0
    /\ IF c \in Registered
       THEN Goto(i, c, m, None, Begin(c, m))
       ELSE /\ pc' = [pc EXCEPT ![i] = "unhandled"]
            /\ UNCHANGED <<loop, cmd, msg, call, calls, resp, out, sends, escaped>>
    /\ UNCHANGED <<OPENWEATHER_KEY, HUGGINGFACE_KEY, delivered>>

\* requests.get/post returns or raises r; the handler runs on to its next await
Returns(i, r) ==
    /\ Goto(i, cmd[i], msg[i], r, Resume(cmd[i], msg[i], r))
    /\ UNCHANGED <<OPENWEATHER_KEY, HUGGINGFACE_KEY, delivered>>

\* the remote service answers
HttpResponse(i, r) ==
    /\ pc[i] = "calling"
    /\ ~call[i].silent
    /\ r \in Responses(cmd[i], msg[i])
    /\ Returns(i, r)

\* the connection fails: requests raises ConnectionError
HttpError(i) ==
    /\ pc[i] = "calling"
    /\ ~call[i].silent
    /\ Returns(i, Exc("ConnectionError"))

\* the timeout given to requests expires: requests raises Timeout
HttpTimeout(i) ==
    /\ pc[i] = "calling"
    /\ call[i].timeout > 0
    /\ Returns(i, Exc("Timeout"))

\* await message.reply(...) completes: the reply is delivered, the handler returns
SendOk(i) ==
    /\ pc[i] = "reply"
    /\ loop = 0
    /\ delivered' = [delivered EXCEPT ![i] = @ + 1]
    /\ pc' = [pc EXCEPT ![i] = "done"]
    /\ Release(i)
    /\ UNCHANGED <<OPENWEATHER_KEY, HUGGINGFACE_KEY, loop, calls, sends, escaped>>

\* await message.reply(...) raises: inside try the except branch replies, outside
\* the exception leaves the handler
SendFails(i) ==
    /\ pc[i] = "reply"
    /\ loop = 0
    /\ IF out[i].inTry
       THEN Goto(i, cmd[i], msg[i], None, Except(cmd[i], msg[i]))
       ELSE Goto(i, cmd[i], msg[i], None, Raise("TelegramAPIError"))
    /\ UNCHANGED <<OPENWEATHER_KEY, HUGGINGFACE_KEY, delivered>>

Next ==
    \/ \E i \in Tasks, c \in Commands : \E m \in MessagesOf(c) : Dispatch(i, c, m)
    \/ \E i \in Tasks : \E r \in Responses(cmd[i], msg[i]) : HttpResponse(i, r)
    \/ \E i \in Tasks : HttpError(i)
    \/ \E i \in Tasks : HttpTimeout(i)
    \/ \E i \in Tasks : SendOk(i)
    \/ \E i \in Tasks : SendFails(i)

Spec == Init /\ [][Next]_vars

\* the event loop keeps running every handler that can take a step
FairSpec ==
    /\ Spec
    /\ \A i \in Tasks : WF_vars(HttpError(i) \/ HttpTimeout(i)
                                \/ \E r \in Responses(cmd[i], msg[i]) : HttpResponse(i, r))
    /\ \A i \in Tasks : WF_vars(SendOk(i) \/ SendFails(i))

\* ================================================================ claims
Live(i) == pc[i] \in {"calling", "reply"}

RemoteCommands == {"joke", "quote", "meme", "weather", "crypto", "ask"}

DocumentedFailure(c) ==
    CASE c = "joke" -> {"Joke API error"}
      [] c = "quote" -> {"Quote API error"}
      [] c = "meme" -> {"No meme for now"}
      [] c = "weather" -> {"Weather not found or API key missing", "Weather API error"}
      [] c = "crypto" -> {"Coin not found", "CoinGecko API error"}
      [] c = "ask" -> {"AI API error or timeout"}

\* the decoded body has the string-keyed field k
HasField(d, k) == IsObj(d) /\ k \in DOMAIN d.o /\ ~IsNone(d.o[k])

HeadOf(d) == IF IsArr(d) /\ Len(d.a) > 0 THEN d.a[1] ELSE None

\* the body carries every field the command's success reply is made of
HasRequiredFields(c, m, d) ==
    CASE c = "joke" -> HasField(d, "joke")
      [] c = "quote" -> HasField(HeadOf(d), "q") /\ HasField(HeadOf(d), "a")
      [] c = "meme" -> HasField(d, "url")
      [] c = "weather" -> /\ HasField(d, "weather") /\ HasField(d, "main")
                          /\ HasField(HeadOf(d.o["weather"]), "description")
                          /\ HasField(d.o["main"], "temp")
      [] c = "crypto" -> /\ HasField(d, crypto_coin(m.args))
                         /\ HasField(d.o[crypto_coin(m.args)], "usd")
      [] c = "ask" -> HasField(d, "generated_text") \/ HasField(HeadOf(d), "generated_text")

\* network error, timeout, non-success status, malformed body or missing field
RemoteCallFailed(c, m, r) ==
    \/ IsExc(r)
    \/ r.status # 200
    \/ IsBad(r.body)
    \/ ~HasRequiredFields(c, m, r.body)

\* C2: whenever the remote call of /joke, /quote, /meme, /weather, /crypto or
\* /ask fails (network error, timeout, non-success status, malformed body,
\* required field missing), the reply is the command's documented failure string.
C2_FailureRepliesDocumented ==
    \A i \in Tasks :
        (pc[i] = "reply" /\ cmd[i] \in RemoteCommands /\ ~IsNone(resp[i])
            /\ RemoteCallFailed(cmd[i], msg[i], resp[i])) =>
            out[i].photo = "" /\ out[i].text \in DocumentedFailure(cmd[i])

C4_ExactlyOneReply ==
    \A i \in Tasks :
        /\ sends[i] <= 1
        /\ pc[i] \in {"done", "raised"} => sends[i] = 1

\* task j is the next update the dispatch loop will take
NextUpdate(j) == pc[j] = "none" /\ (IF j = 1 THEN TRUE ELSE pc[j - 1] # "none")

\* C5: while one invocation waits on its outbound HTTP call, the dispatch loop
\* can still accept and start handling the next invocation.
C5_LoopAcceptsWhileCallPending ==
    \A i, j \in Tasks :
        (pc[i] = "calling" /\ NextUpdate(j)) =>
            ENABLED (\E c \in Commands : \E m \in MessagesOf(c) : Dispatch(j, c, m))

\* C6: no invocation stays pending on its outbound call forever: the call
\* returns, raises or times out, and the handler goes on to its reply.
C6_NoCallPendsForever ==
    \A i \in Tasks : (pc[i] = "calling") ~> (pc[i] # "calling")

IsLetter(c) == \E k \in 1..Len(Lowers) : Char(Lowers, k) = c

LetterAt(t, p) == p >= 1 /\ p <= Len(t) /\ IsLetter(Char(t, p))

\* the positions of t where a command "/name" is mentioned
MentionsIn(t) == {p \in 1..Len(t) : Char(t, p) = "/" /\ LetterAt(t, p + 1)}

\* the name mentioned at position p: the run of lower-case letters after the "/"
NameAt(t, p) ==
    SubSeq(t, p + 1, CHOOSE e \in (p + 1)..Len(t) :
                         /\ \A q \in (p + 1)..e : LetterAt(t, q)
                         /\ ~LetterAt(t, e + 1))

\* C7: the /help reply lists every registered command exactly once and no
\* command that is not registered.
C7_HelpListsRegistered ==
    \A i \in Tasks :
        (pc[i] = "reply" /\ cmd[i] = "help") =>
            LET t == out[i].text
            IN  /\ \A c \in Registered :
                       Cardinality({p \in MentionsIn(t) : NameAt(t, p) = c}) = 1
                /\ \A p \in MentionsIn(t) : NameAt(t, p) \in Registered

C9_ReplyTruncated ==
    \A i \in Tasks :
        (pc[i] = "reply" /\ cmd[i] = "ask" /\ out[i].line = 220) =>
            LET text == ask_text(Json(resp[i])).s
                n == Len(text)
            IN  /\ Len(out[i].text) = (IF n <= 3000 THEN n ELSE 3000)
                /\ out[i].text = SubSeq(text, 1, Len(out[i].text))
                /\ n <= 3000 => out[i].text = text

\* a generated text of 4000 characters is being sent cut to 3000, one of 2999 whole
C9_Witness ==
    \E i, j \in Tasks :
        /\ pc[i] = "reply" /\ cmd[i] = "ask" /\ out[i].line = 220
        /\ Len(ask_text(Json(resp[i])).s) = 4000 /\ Len(out[i].text) = 3000
        /\ pc[j] = "reply" /\ cmd[j] = "ask" /\ out[j].line = 220
        /\ Len(ask_text(Json(resp[j])).s) = 2999 /\ Len(out[j].text) = 2999

CoinGeckoUrl(id) ==
    "https://api.coingecko.com/api/v3/simple/price?ids=" \o id \o "&vs_currencies=usd"

====
